---- MODULE Spec2Model ----
(***************************************************************************)
(* Model of the BV-BRC MCP adapter: the JSON-RPC 1.1 client                *)
(* (bvbrc_mcp/client.py) and the tool router (bvbrc_mcp/server.py).        *)
(*                                                                         *)
(* Python values are tagged records [t |-> tag, v |-> payload]:            *)
(*   null, bool, int, str, list (a sequence of values), dict (a sequence   *)
(*   of <<key, value>> pairs in insertion order), and the three            *)
(*   dataclasses Task, AppDescription, WorkspaceObject.                    *)
(* Token texts are sequences of one-character strings, so that strip()     *)
(* is computed character by character.                                     *)
(***************************************************************************)
EXTENDS Integers, Sequences, FiniteSets, TLC

VARIABLES
    environ,      \* os.environ and the home directory's token files
    token,        \* client.token
    _request_id,  \* client._request_id
    pc,           \* where the process is
    inflight,     \* the tool call blocked in self._http.post, with its request
    last,         \* what the last finished call did and returned
    calls,        \* how many times call_tool has been invoked
    served,       \* how many of those invocations have returned a response
    unknown_seen, \* whether a tool name outside the catalog has been called
    ids,          \* the "id" of every envelope handed to self._http.post
    tuple_data,   \* the wire tuple given to _parse_workspace_object
    parsed,       \* what _parse_workspace_object made of it
    callers       \* the threads calling _rpc_call on the one client, each at its step

vars == <<environ, token, _request_id, pc, inflight, last, calls, served,
          unknown_seen, ids,
          tuple_data, parsed, callers>>

\* ------------------------------------------------------------------ bounds
MaxCalls == 3      \* tool calls in one session
MaxTokLen == 2     \* characters in an environment variable or token file
MaxTupleLen == 12  \* elements in a workspace wire tuple
NumCallers == 2    \* threads sharing one client
CallsPerCaller == 2  \* RPC calls each thread makes

\* ----------------------------------------------------------- Python values
None == [t |-> "null"]
PyBool(b) == [t |-> "bool", v |-> b]
PyInt(n) == [t |-> "int", v |-> n]
PyStr(s) == [t |-> "str", v |-> s]
PyList(s) == [t |-> "list", v |-> s]
PyDict(s) == [t |-> "dict", v |-> s]

Return(v) == [k |-> "return", v |-> v]
Raise(exc, msg) == [k |-> "raise", exc |-> exc, msg |-> msg]

\* bool(v)
truthy(v) ==
    CASE v.t = "null" -> FALSE
      [] v.t = "bool" -> v.v
      [] v.t = "int" -> v.v # 0
      [] v.t = "str" -> v.v # ""
      [] v.t = "list" -> Len(v.v) > 0
      [] v.t = "dict" -> Len(v.v) > 0
      [] OTHER -> TRUE

Digit == <<"0", "1", "2", "3", "4", "5", "6", "7", "8", "9">>

RECURSIVE NatStr(_)
NatStr(n) == IF n < 10 THEN Digit[n + 1] ELSE NatStr(n \div 10) \o Digit[(n % 10) + 1]

\* str(n) of an int
IntStr(n) == IF n < 0 THEN "-" \o NatStr(-n) ELSE NatStr(n)

\* a == b of Python, where bool is a subclass of int (True == 1, False == 0)
AsNumber(v) == IF v.t = "bool" THEN (IF v.v THEN 1 ELSE 0) ELSE v.v
PyEq(a, b) ==
    IF a.t \in {"bool", "int"} /\ b.t \in {"bool", "int"}
    THEN AsNumber(a) = AsNumber(b)
    ELSE a = b

TypeName(v) ==
    CASE v.t = "null" -> "NoneType"
      [] v.t = "bool" -> "bool"
      [] v.t = "int" -> "int"
      [] v.t = "str" -> "str"
      [] v.t = "list" -> "list"
      [] v.t = "dict" -> "dict"
      [] OTHER -> v.t

RECURSIVE repr(_)
RECURSIVE repr_items(_, _, _)
\* ", ".join of the reprs of a list's elements or of a dict's key: value pairs
repr_items(s, i, pairs) ==
    IF i > Len(s) THEN ""
    ELSE (IF i > 1 THEN ", " ELSE "")
         \o (IF pairs THEN "'" \o s[i][1] \o "': " \o repr(s[i][2]) ELSE repr(s[i]))
         \o repr_items(s, i + 1, pairs)

\* repr(v)
repr(v) ==
    CASE v.t = "null" -> "None"
      [] v.t = "bool" -> IF v.v THEN "True" ELSE "False"
      [] v.t = "int" -> IntStr(v.v)
      [] v.t = "str" -> "'" \o v.v \o "'"
      [] v.t = "list" -> "[" \o repr_items(v.v, 1, FALSE) \o "]"
      [] v.t = "dict" -> "{" \o repr_items(v.v, 1, TRUE) \o "}"
      [] OTHER -> v.t \o "(...)"

\* str(v): a string is itself, everything else prints as its repr
str(v) == IF v.t = "str" THEN v.v ELSE repr(v)

\* The integers the remote service is given to send as sizes and codes.
KnownInts == {0, 1, 5, 12}

\* int(v)
int(v) ==
    CASE v.t = "int" -> Return(v.v)
      [] v.t = "bool" -> Return(IF v.v THEN 1 ELSE 0)
      [] v.t = "str" ->
            IF \E n \in KnownInts : IntStr(n) = v.v
            THEN Return(CHOOSE n \in KnownInts : IntStr(n) = v.v)
            ELSE Raise("ValueError", "invalid literal for int() with base 10: " \o repr(v))
      [] OTHER -> Raise("TypeError", "int() argument must be a string, a bytes-like object or a real number, not '" \o TypeName(v) \o "'")

\* len(v)
len(v) ==
    IF v.t \in {"str", "list", "dict"} THEN Return(Len(v.v))
    ELSE Raise("TypeError", "object of type '" \o TypeName(v) \o "' has no len()")

\* v[i] for an integer i >= 0. The keys of every dict are strings, so an
\* integer subscript of a dict is a KeyError; the strings subscripted have at
\* most one character.
Subscript(v, i) ==
    CASE v.t = "list" ->
            IF i < Len(v.v) THEN Return(v.v[i + 1])
            ELSE Raise("IndexError", "list index out of range")
      [] v.t = "str" ->
            IF i < Len(v.v) THEN Return(v)
            ELSE Raise("IndexError", "string index out of range")
      [] v.t = "dict" -> Raise("KeyError", IntStr(i))
      [] OTHER -> Raise("TypeError", "'" \o TypeName(v) \o "' object is not subscriptable")

\* key in d, for a dict d
DictHas(d, key) == \E i \in 1..Len(d.v) : d.v[i][1] = key

\* d.get(key, default), for a dict d
DictGet(d, key, default) ==
    IF DictHas(d, key)
    THEN d.v[CHOOSE i \in 1..Len(d.v) : d.v[i][1] = key][2]
    ELSE default

\* v.get(key, default): only a dict has the method
get(v, key, default) ==
    IF v.t = "dict" THEN Return(DictGet(v, key, default))
    ELSE Raise("AttributeError", "'" \o TypeName(v) \o "' object has no attribute 'get'")

\* The elements "for x in v" visits.
iter(v) ==
    CASE v.t = "list" -> Return(v.v)
      [] v.t = "dict" -> Return([i \in 1..Len(v.v) |-> PyStr(v.v[i][1])])
      [] v.t = "str" -> Return(IF v.v = "" THEN <<>> ELSE <<v>>)
      [] OTHER -> Raise("TypeError", "'" \o TypeName(v) \o "' object is not iterable")

\* The first exception among a sequence of outcomes, evaluated left to right.
FirstRaise(outs) == outs[CHOOSE i \in 1..Len(outs) :
                           /\ outs[i].k = "raise"
                           /\ \A j \in 1..(i - 1) : outs[j].k = "return"]

AnyRaise(outs) == \E i \in 1..Len(outs) : outs[i].k = "raise"

Values(outs) == [i \in 1..Len(outs) |-> outs[i].v]

\* ------------------------------------------------------------------ tokens
Whitespace == {" ", "\t", "\n", "\r"}
Chars == {" ", "a"}

RECURSIVE lstrip(_)
lstrip(s) == IF s # <<>> /\ Head(s) \in Whitespace THEN lstrip(Tail(s)) ELSE s

RECURSIVE rstrip(_)
rstrip(s) ==
    IF s # <<>> /\ s[Len(s)] \in Whitespace THEN rstrip(SubSeq(s, 1, Len(s) - 1)) ELSE s

\* str.strip()
strip(s) == rstrip(lstrip(s))

Texts == UNION {[1..n -> Chars] : n \in 0..MaxTokLen}

\* An environment variable: unset, or set to a text.
EnvVars == {[set |-> FALSE, text |-> <<>>]} \cup {[set |-> TRUE, text |-> x] : x \in Texts}

\* A token file: missing, present but unreadable, or readable with a text.
TokenFiles ==
    {[exists |-> FALSE, readable |-> FALSE, text |-> <<>>],
     [exists |-> TRUE, readable |-> FALSE, text |-> <<>>]}
    \cup {[exists |-> TRUE, readable |-> TRUE, text |-> x] : x \in Texts}

\* The files are .bvbrc_token, .patric_token, .p3_token, in that order.
Environs == [BVBRC_TOKEN : EnvVars, P3_AUTH_TOKEN : EnvVars, files : [1..3 -> TokenFiles]]

\* os.environ.get(name) is truthy
env_truthy(e) == e.set /\ e.text # <<>>

RECURSIVE token_files(_, _)
token_files(files, i) ==
    IF i > Len(files) THEN <<>>
    ELSE IF files[i].exists
         THEN IF files[i].readable THEN strip(files[i].text)
              ELSE token_files(files, i + 1)
         ELSE token_files(files, i + 1)

_load_token(e) ==
    LET tok == IF env_truthy(e.BVBRC_TOKEN) THEN e.BVBRC_TOKEN ELSE e.P3_AUTH_TOKEN
    IN IF env_truthy(tok) THEN strip(tok.text) ELSE token_files(e.files, 1)

\* BVBRCClient.__init__: token or _load_token()
init_token(arg, e) == IF arg # <<>> THEN arg ELSE _load_token(e)

is_authenticated(tok) == tok # <<>>

\* ------------------------------------------------- workspace tuple decoder
\* str(tuple_data[i]) if len(tuple_data) > i else ""
str_field(td, n, i) ==
    IF n > i
    THEN LET e == Subscript(td, i)
         IN IF e.k = "raise" THEN e ELSE Return(PyStr(str(e.v)))
    ELSE Return(PyStr(""))

\* Mutant: the size is guarded by the length of the tuple up to the reserved
\* slot before it, so a 6-element tuple is read at position 6.
size_field_short_guard(td, n) ==
    IF n > 5
    THEN LET e == Subscript(td, 6)
         IN IF e.k = "raise" THEN e
            ELSE IF truthy(e.v)
                 THEN LET z == int(e.v) IN IF z.k = "raise" THEN z ELSE Return(PyInt(z.v))
                 ELSE Return(PyInt(0))
    ELSE Return(PyInt(0))

\* int(tuple_data[6]) if len(tuple_data) > 6 and tuple_data[6] else 0
size_field(td, n) ==
    IF n > 6
    THEN LET e == Subscript(td, 6)
         IN IF e.k = "raise" THEN e
            ELSE IF truthy(e.v)
                 THEN LET z == int(e.v) IN IF z.k = "raise" THEN z ELSE Return(PyInt(z.v))
                 ELSE Return(PyInt(0))
    ELSE Return(PyInt(0))

\* tuple_data[i] if len(tuple_data) > i else {}
metadata_field(td, n, i) == IF n > i THEN Subscript(td, i) ELSE Return(PyDict(<<>>))

\* str(tuple_data[i]) if len(tuple_data) > i and tuple_data[i] else None
optional_field(td, n, i) ==
    IF n > i
    THEN LET e == Subscript(td, i)
         IN IF e.k = "raise" THEN e
            ELSE IF truthy(e.v) THEN Return(PyStr(str(e.v))) ELSE Return(None)
    ELSE Return(None)

\* The keyword arguments of WorkspaceObject(...), in the order they are evaluated.
workspace_object_fields(td, n) ==
    <<str_field(td, n, 0), str_field(td, n, 1), str_field(td, n, 2),
      str_field(td, n, 3), str_field(td, n, 4), size_field(td, n),
      metadata_field(td, n, 7), metadata_field(td, n, 8),
      optional_field(td, n, 9), optional_field(td, n, 11)>>

WorkspaceObject(f) ==
    [t |-> "WorkspaceObject", path |-> f[1], type |-> f[2], owner |-> f[3],
     creation_time |-> f[4], id |-> f[5], size |-> f[6], user_metadata |-> f[7],
     auto_metadata |-> f[8], shock_ref |-> f[9], data |-> f[10]]

_parse_workspace_object(td) ==
    LET n == len(td)
    IN IF n.k = "raise" THEN n
       ELSE LET outs == workspace_object_fields(td, n.v)
            IN IF AnyRaise(outs) THEN FirstRaise(outs)
               ELSE Return(WorkspaceObject(Values(outs)))

\* What the remote service puts at position i (from 0) of a workspace tuple:
\* path, type, owner, creation time, id, a reserved slot, size, the two
\* metadata mappings, the shock reference, a reserved slot, the data.
WireValues(i) ==
    CASE i = 0 -> {PyStr("/u/home/x"), None}
      [] i = 1 -> {PyStr("folder")}
      [] i = 2 -> {PyStr("u")}
      [] i = 3 -> {PyStr("2024-01-01")}
      [] i = 4 -> {PyStr("uuid"), PyInt(5)}
      [] i = 5 -> {PyStr("reserved5"), None}
      [] i = 6 -> {PyInt(0), PyInt(12), PyStr("12"), PyStr(""), None}
      [] i = 7 -> {PyDict(<<>>), PyDict(<< <<"k", PyStr("v")>> >>)}
      [] i = 8 -> {PyDict(<<>>), PyDict(<< <<"a", PyStr("b")>> >>)}
      [] i = 9 -> {PyStr("shock"), PyStr(""), None}
      [] i = 10 -> {PyStr("reserved10")}
      [] i = 11 -> {PyStr("data"), None}
      [] OTHER -> {PyStr("extra")}

RECURSIVE WireTuples(_)
\* All wire tuples of length n.
WireTuples(n) ==
    IF n = 0 THEN {<<>>}
    ELSE {Append(w, x) : w \in WireTuples(n - 1), x \in WireValues(n - 1)}

\* -------------------------------------------------------------- RPC layer
DEFAULT_APP_SERVICE_URL == "https://p3.theseed.org/services/app_service"
DEFAULT_WORKSPACE_URL == "https://p3.theseed.org/services/Workspace"

\* Mutant: the increment is lost, so every envelope repeats the old counter.
next_request_id_lost(rid) == rid

\* self._request_id += 1
next_request_id(rid) == rid + 1

\* Mutant: the Authorization header is sent whether or not there is a token.
request_headers_always(tok) == [Content_Type |-> "application/json", Authorization |-> tok]

\* The headers of one POST: Authorization is the token itself, when there is one.
request_headers(tok) ==
    IF tok # <<>>
    THEN [Content_Type |-> "application/json", Authorization |-> tok]
    ELSE [Content_Type |-> "application/json"]

\* _rpc_call up to self._http.post: the new counter and what is posted.
rpc_send(tok, rid, url, method, params) ==
    LET id == next_request_id(rid)
    IN [_request_id |-> id,
        url |-> url,
        json |-> [id |-> str(PyInt(id)), method |-> method, version |-> "1.1",
                  params |-> params],
        headers |-> request_headers(tok)]

_call_app_service(method, params) ==
    [url |-> DEFAULT_APP_SERVICE_URL, method |-> method, params |-> params]

_call_workspace(method, params) ==
    [url |-> DEFAULT_WORKSPACE_URL, method |-> method, params |-> params]

\* response.raise_for_status() of httpx: every status that is not 2xx raises.
raise_for_status(status) ==
    IF status >= 200 /\ status < 300 THEN Return(None)
    ELSE [k |-> "raise", exc |-> "HTTPStatusError", msg |-> IntStr(status), status |-> status]

\* Mutant: an "error" member is reported whenever the key is present.
rpc_error_any_key(data) == DictHas(data, "error")

\* The "error" member of a body that is to be reported: present and truthy.
rpc_error(data) == DictHas(data, "error") /\ truthy(DictGet(data, "error", None))

\* raise Exception(f"RPC Error {err.get('code')}: {err.get('message')}")
raise_rpc_error(err) ==
    LET code == get(err, "code", None)
        message == get(err, "message", None)
    IN IF code.k = "raise" THEN code
       ELSE Raise("Exception", "RPC Error " \o str(code.v) \o ": " \o str(message.v))

\* _rpc_call from the return of self._http.post on: what the call returns or raises.
rpc_receive(http) ==
    IF http.kind = "timeout" THEN Raise("TimeoutException", "timed out")
    ELSE LET st == raise_for_status(http.status)
         IN IF st.k = "raise" THEN st
            ELSE IF ~http.is_json
                 THEN Raise("JSONDecodeError", "Expecting value: line 1 column 1 (char 0)")
                 ELSE IF rpc_error(http.data)
                      THEN raise_rpc_error(DictGet(http.data, "error", None))
                      ELSE Return(DictGet(http.data, "result", None))

\* ------------------------------------------------------- client operations
\* Each operation is a request (what it hands to _call_app_service or
\* _call_workspace) and a decoder of the result _rpc_call returned.

AppDescription(a) ==
    IF a.t # "dict" THEN get(a, "id", PyStr(""))
    ELSE Return([t |-> "AppDescription",
                 id |-> DictGet(a, "id", PyStr("")),
                 label |-> DictGet(a, "label", PyStr("")),
                 description |-> DictGet(a, "description", PyStr("")),
                 parameters |-> DictGet(a, "parameters", None)])

Task(x) ==
    IF x.t # "dict" THEN get(x, "id", PyStr(""))
    ELSE Return([t |-> "Task",
                 id |-> DictGet(x, "id", PyStr("")),
                 app |-> DictGet(x, "app", PyStr("")),
                 owner |-> DictGet(x, "owner", PyStr("")),
                 status |-> DictGet(x, "status", PyStr("")),
                 submit_time |-> DictGet(x, "submit_time", None),
                 start_time |-> DictGet(x, "start_time", None),
                 completed_time |-> DictGet(x, "completed_time", None),
                 parameters |-> DictGet(x, "parameters", None),
                 output_path |-> DictGet(x, "output_path", None)])

\* [F(x) for x in v]: the list, or the first exception raised on the way.
\* (client.py: the comprehensions of enumerate_apps, enumerate_tasks,
\* workspace_get, workspace_copy, workspace_move, lines 91-99, 158-171, 217.)
Comprehension(F(_), v) ==
    LET xs == iter(v)
    IN IF xs.k = "raise" THEN xs
       ELSE LET outs == [i \in 1..Len(xs.v) |-> F(xs.v[i])]
            IN IF AnyRaise(outs) THEN FirstRaise(outs) ELSE Return(PyList(Values(outs)))

\* result[0] if result else []
first_or_empty_list(result) == IF truthy(result) THEN Subscript(result, 0) ELSE Return(PyList(<<>>))

enumerate_apps_call == _call_app_service("AppService.enumerate_apps", PyList(<<>>))

enumerate_apps(result) ==
    LET apps == first_or_empty_list(result)
    IN IF apps.k = "raise" THEN apps ELSE Comprehension(AppDescription, apps.v)

query_app_description_call(app_id) ==
    _call_app_service("AppService.query_app_description", PyList(<<app_id>>))

query_app_description(result) ==
    IF ~truthy(result) THEN Return(None)
    ELSE LET a == Subscript(result, 0)
         IN IF a.k = "raise" THEN a ELSE AppDescription(a.v)

start_app_call(app_id, params, output_path) ==
    _call_app_service("AppService.start_app", PyList(<<app_id, params, output_path>>))

start_app(result) ==
    LET x == Subscript(result, 0)
    IN IF x.k = "raise" THEN x ELSE Task(x.v)

\* {key: F(value) for key, value in v.items()}, or the first exception.
\* (client.py: the loops of query_tasks and workspace_ls, lines 140-151, 202-203.)
ItemsComprehension(F(_), v) ==
    IF v.t # "dict"
    THEN Raise("AttributeError", "'" \o TypeName(v) \o "' object has no attribute 'items'")
    ELSE LET outs == [i \in 1..Len(v.v) |-> F(v.v[i][2])]
         IN IF AnyRaise(outs) THEN FirstRaise(outs)
            ELSE Return(PyDict([i \in 1..Len(v.v) |-> <<v.v[i][1], outs[i].v>>]))

query_tasks_call(task_ids) == _call_app_service("AppService.query_tasks", PyList(<<task_ids>>))

query_tasks(result) ==
    IF ~truthy(result) THEN Return(PyDict(<<>>))
    ELSE LET m == Subscript(result, 0)
         IN IF m.k = "raise" THEN m ELSE ItemsComprehension(Task, m.v)

enumerate_tasks_call(offset, limit) ==
    _call_app_service("AppService.enumerate_tasks", PyList(<<offset, limit>>))

enumerate_tasks(result) ==
    LET tasks_raw == first_or_empty_list(result)
    IN IF tasks_raw.k = "raise" THEN tasks_raw ELSE Comprehension(Task, tasks_raw.v)

kill_task_call(task_id) == _call_app_service("AppService.kill_task", PyList(<<task_id>>))

\* result[0] == 1 if result else False
kill_task(result) ==
    IF truthy(result)
    THEN LET x == Subscript(result, 0)
         IN IF x.k = "raise" THEN x ELSE Return(PyBool(PyEq(x.v, PyInt(1))))
    ELSE Return(PyBool(FALSE))

query_app_log_call(task_id) == _call_app_service("AppService.query_app_log", PyList(<<task_id>>))

query_app_log(result) ==
    IF result.t = "str" THEN Return(result)
    ELSE IF result.t = "list" /\ truthy(result) THEN Return(PyStr(str(result.v[1])))
         ELSE Return(PyStr(""))

\* {"paths": paths} plus "recursive": True when recursive is truthy
optional_flag(params, key, flag) ==
    IF truthy(flag) THEN PyDict(params.v \o << <<key, PyBool(TRUE)>> >>) ELSE params

workspace_ls_call(paths, recursive) ==
    _call_workspace("Workspace.ls",
        PyList(<<optional_flag(PyDict(<< <<"paths", paths>> >>), "recursive", recursive)>>))

parse_all(tuples) == Comprehension(_parse_workspace_object, tuples)

workspace_ls(result) ==
    IF ~truthy(result) THEN Return(PyDict(<<>>))
    ELSE LET m == Subscript(result, 0)
         IN IF m.k = "raise" THEN m ELSE ItemsComprehension(parse_all, m.v)

\* if not result or not result[0]: return []; else the decoded tuples of result[0]
decode_object_list(result) ==
    IF ~truthy(result) THEN Return(PyList(<<>>))
    ELSE LET x == Subscript(result, 0)
         IN IF x.k = "raise" THEN x
            ELSE IF ~truthy(x.v) THEN Return(PyList(<<>>))
                 ELSE parse_all(x.v)

workspace_get_call(paths, metadata_only) ==
    _call_workspace("Workspace.get",
        PyList(<<optional_flag(PyDict(<< <<"objects", paths>> >>), "metadata_only", metadata_only)>>))

workspace_get(result) == decode_object_list(result)

\* Mutant: the overwrite argument is always written into the mapping.
workspace_create_call_explicit(path, obj_type, content, overwrite) ==
    _call_workspace("Workspace.create",
        PyList(<<PyDict(<< <<"objects", PyList(<<PyList(<<path, obj_type, PyDict(<<>>), content>>)>>)>>,
                           <<"overwrite", overwrite>> >>)>>))

workspace_create_call(path, obj_type, content, overwrite) ==
    _call_workspace("Workspace.create",
        PyList(<<optional_flag(
            PyDict(<< <<"objects", PyList(<<PyList(<<path, obj_type, PyDict(<<>>), content>>)>>)>> >>),
            "overwrite", overwrite)>>))

workspace_create(result) ==
    LET x == Subscript(result, 0)
    IN IF x.k = "raise" THEN x
       ELSE LET y == Subscript(x.v, 0)
            IN IF y.k = "raise" THEN y ELSE _parse_workspace_object(y.v)

workspace_delete_call(paths, force) ==
    _call_workspace("Workspace.delete",
        PyList(<<optional_flag(
            PyDict(<< <<"objects", paths>>, <<"deleteDirectories", PyBool(TRUE)>> >>),
            "force", force)>>))

workspace_delete(result) == Return(None)

workspace_copy_call(source, destination) ==
    _call_workspace("Workspace.copy",
        PyList(<<PyDict(<< <<"objects", PyList(<<PyList(<<source, destination>>)>>)>>,
                           <<"recursive", PyBool(TRUE)>> >>)>>))

workspace_copy(result) == decode_object_list(result)

workspace_move_call(source, destination) ==
    _call_workspace("Workspace.move",
        PyList(<<PyDict(<< <<"objects", PyList(<<PyList(<<source, destination>>)>>)>> >>)>>))

workspace_move(result) == decode_object_list(result)

workspace_set_permissions_call(path, permissions) ==
    _call_workspace("Workspace.set_permissions",
        PyList(<<PyDict(<< <<"path", path>>, <<"permissions", permissions>> >>)>>))

workspace_set_permissions(result) == Return(None)

workspace_get_download_url_call(paths) ==
    _call_workspace("Workspace.get_download_url", PyList(<<PyDict(<< <<"objects", paths>> >>)>>))

\* result[0] if result else {}
workspace_get_download_url(result) ==
    IF truthy(result) THEN Subscript(result, 0) ELSE Return(PyDict(<<>>))

\* ------------------------------------------------------------ tool router
\* dataclasses.asdict(o)
asdict(o) ==
    CASE o.t = "Task" ->
            PyDict(<< <<"id", o.id>>, <<"app", o.app>>, <<"owner", o.owner>>,
                      <<"status", o.status>>, <<"submit_time", o.submit_time>>,
                      <<"start_time", o.start_time>>,
                      <<"completed_time", o.completed_time>>,
                      <<"parameters", o.parameters>>, <<"output_path", o.output_path>> >>)
      [] o.t = "AppDescription" ->
            PyDict(<< <<"id", o.id>>, <<"label", o.label>>,
                      <<"description", o.description>>, <<"parameters", o.parameters>> >>)
      [] o.t = "WorkspaceObject" ->
            PyDict(<< <<"path", o.path>>, <<"type", o.type>>, <<"owner", o.owner>>,
                      <<"creation_time", o.creation_time>>, <<"id", o.id>>,
                      <<"size", o.size>>, <<"user_metadata", o.user_metadata>>,
                      <<"auto_metadata", o.auto_metadata>>, <<"shock_ref", o.shock_ref>>,
                      <<"data", o.data>> >>)

asdict_all(objs) == PyList([i \in 1..Len(objs.v) |-> asdict(objs.v[i])])

RECURSIVE Spaces(_)
Spaces(n) == IF n = 0 THEN "" ELSE " " \o Spaces(n - 1)

RECURSIVE dumps(_, _)
RECURSIVE dumps_items(_, _, _, _)
\* The members of a list or dict, one per line, indented by ind spaces.
dumps_items(s, i, ind, pairs) ==
    IF i > Len(s) THEN ""
    ELSE (IF i > 1 THEN ",\n" ELSE "") \o Spaces(ind)
         \o (IF pairs THEN "\"" \o s[i][1] \o "\": " \o dumps(s[i][2], ind)
             ELSE dumps(s[i], ind))
         \o dumps_items(s, i + 1, ind, pairs)

\* json.dumps(v, indent=2, default=str) of a value nested ind spaces deep;
\* the strings serialized need no escaping.
dumps(v, ind) ==
    CASE v.t = "null" -> "null"
      [] v.t = "bool" -> IF v.v THEN "true" ELSE "false"
      [] v.t = "int" -> IntStr(v.v)
      [] v.t = "str" -> "\"" \o v.v \o "\""
      [] v.t = "list" ->
            IF Len(v.v) = 0 THEN "[]"
            ELSE "[\n" \o dumps_items(v.v, 1, ind + 2, FALSE) \o "\n" \o Spaces(ind) \o "]"
      [] v.t = "dict" ->
            IF Len(v.v) = 0 THEN "{}"
            ELSE "{\n" \o dumps_items(v.v, 1, ind + 2, TRUE) \o "\n" \o Spaces(ind) \o "}"
      [] OTHER -> "\"" \o repr(v) \o "\""

_to_json(data) == PyStr(dumps(data, 0))

\* args[key] for each key in turn: the KeyError of the first one missing.
HasAll(args, keys) == \A i \in 1..Len(keys) : DictHas(args, keys[i])

KeyError(args, keys) ==
    Raise("KeyError", "'" \o keys[CHOOSE i \in 1..Len(keys) :
                                    /\ ~DictHas(args, keys[i])
                                    /\ \A j \in 1..(i - 1) : DictHas(args, keys[j])] \o "'")

\* The client operation a handler calls once it has read the keys it needs.
Need(args, keys, op, call) ==
    IF HasAll(args, keys) THEN Return([op |-> op, call |-> call]) ELSE KeyError(args, keys)

\* Mutant: the requested limit is passed on without the clamp.
job_list_limit_unclamped(args) == DictGet(args, "limit", PyInt(25))

\* min(args.get("limit", 25), 100)
job_list_limit(args) ==
    LET limit == DictGet(args, "limit", PyInt(25))
    IN IF 100 < limit.v THEN PyInt(100) ELSE limit

\* Mutant: job_logs asks the remote service for the log itself.
job_logs_call_app_log(task_id) == query_app_log_call(task_id)

\* The client operation job_logs calls.
job_logs_call(task_id) == query_tasks_call(PyList(<<task_id>>))

\* handle_tool up to the client call: the call, or what is raised before it.
handle_tool_call(name, args) ==
    LET A(key) == DictGet(args, key, None)
    IN CASE name = "workspace_list" ->
                Need(args, <<"path">>, "workspace_ls",
                     workspace_ls_call(PyList(<<A("path")>>),
                                       DictGet(args, "recursive", PyBool(FALSE))))
         [] name = "workspace_get" ->
                Need(args, <<"path">>, "workspace_get",
                     workspace_get_call(PyList(<<A("path")>>),
                                        DictGet(args, "metadata_only", PyBool(FALSE))))
         [] name = "workspace_create_folder" ->
                Need(args, <<"path">>, "workspace_create",
                     workspace_create_call(A("path"), PyStr("folder"), None, PyBool(FALSE)))
         [] name = "workspace_upload" ->
                Need(args, <<"path", "content">>, "workspace_create",
                     workspace_create_call(A("path"),
                                           DictGet(args, "type", PyStr("unspecified")),
                                           A("content"), PyBool(TRUE)))
         [] name = "workspace_delete" ->
                Need(args, <<"path">>, "workspace_delete",
                     workspace_delete_call(PyList(<<A("path")>>),
                                           DictGet(args, "force", PyBool(FALSE))))
         [] name = "workspace_copy" ->
                Need(args, <<"source", "destination">>, "workspace_copy",
                     workspace_copy_call(A("source"), A("destination")))
         [] name = "workspace_move" ->
                Need(args, <<"source", "destination">>, "workspace_move",
                     workspace_move_call(A("source"), A("destination")))
         [] name = "workspace_share" ->
                Need(args, <<"path", "user", "permission">>, "workspace_set_permissions",
                     workspace_set_permissions_call(
                         A("path"), PyList(<<PyList(<<A("user"), A("permission")>>)>>)))
         [] name = "workspace_download_url" ->
                Need(args, <<"path">>, "workspace_get_download_url",
                     workspace_get_download_url_call(PyList(<<A("path")>>)))
         [] name = "apps_list" -> Need(args, <<>>, "enumerate_apps", enumerate_apps_call)
         [] name = "app_schema" ->
                Need(args, <<"app_id">>, "query_app_description",
                     query_app_description_call(A("app_id")))
         [] name = "job_submit" ->
                Need(args, <<"app_id", "params", "output_path">>, "start_app",
                     start_app_call(A("app_id"), A("params"), A("output_path")))
         [] name = "job_status" ->
                Need(args, <<"task_ids">>, "query_tasks", query_tasks_call(A("task_ids")))
         [] name = "job_list" ->
                Need(args, <<>>, "enumerate_tasks",
                     enumerate_tasks_call(DictGet(args, "offset", PyInt(0)),
                                          job_list_limit(args)))
         [] name = "job_cancel" ->
                Need(args, <<"task_id">>, "kill_task", kill_task_call(A("task_id")))
         [] name = "job_logs" ->
                Need(args, <<"task_id">>, "query_tasks", job_logs_call(A("task_id")))
         [] OTHER -> Raise("ValueError", "Unknown tool: " \o name)

\* The client operation op, from the result _rpc_call returned.
client_result(op, result) ==
    CASE op = "workspace_ls" -> workspace_ls(result)
      [] op = "workspace_get" -> workspace_get(result)
      [] op = "workspace_create" -> workspace_create(result)
      [] op = "workspace_delete" -> workspace_delete(result)
      [] op = "workspace_copy" -> workspace_copy(result)
      [] op = "workspace_move" -> workspace_move(result)
      [] op = "workspace_set_permissions" -> workspace_set_permissions(result)
      [] op = "workspace_get_download_url" -> workspace_get_download_url(result)
      [] op = "enumerate_apps" -> enumerate_apps(result)
      [] op = "query_app_description" -> query_app_description(result)
      [] op = "start_app" -> start_app(result)
      [] op = "query_tasks" -> query_tasks(result)
      [] op = "enumerate_tasks" -> enumerate_tasks(result)
      [] op = "kill_task" -> kill_task(result)
      [] op = "query_app_log" -> query_app_log(result)

\* The three fields apps_list reports of each application.
app_summary(apps) ==
    PyList([i \in 1..Len(apps.v) |->
        PyDict(<< <<"id", apps.v[i].id>>, <<"label", apps.v[i].label>>,
                  <<"description", apps.v[i].description>> >>)])

\* job_logs once query_tasks has returned: the hint, or "Task <id> not found".
job_logs_result(task_id, tasks) ==
    IF task_id.t = "str" /\ DictHas(tasks, task_id.v)
    THEN LET task == DictGet(tasks, task_id.v, None)
         IN Return(_to_json(PyDict(<<
                <<"note", PyStr("Direct log retrieval is not available via API")>>,
                <<"task_id", task_id>>,
                <<"status", task.status>>,
                <<"output_path", task.output_path>>,
                <<"suggestion", PyStr("Use workspace_list on '" \o str(task.output_path)
                                       \o "' to find log files (.log, .err, .out)")>> >>)))
    ELSE Return(PyStr("Task " \o str(task_id) \o " not found"))

\* handle_tool from the return of the client call on: the text, or what is raised.
handle_tool_result(name, args, ret) ==
    LET A(key) == DictGet(args, key, None)
        result == ret.v
    IN IF ret.k = "raise" THEN ret
       ELSE CASE name = "workspace_list" ->
                    Return(_to_json(PyDict([i \in 1..Len(result.v) |->
                        <<result.v[i][1], asdict_all(result.v[i][2])>>])))
              [] name = "workspace_get" ->
                    Return(_to_json(IF truthy(result) THEN asdict(result.v[1]) ELSE None))
              [] name \in {"workspace_create_folder", "workspace_upload", "job_submit"} ->
                    Return(_to_json(asdict(result)))
              [] name = "workspace_delete" -> Return(PyStr("Deleted: " \o str(A("path"))))
              [] name \in {"workspace_copy", "workspace_move", "job_list"} ->
                    Return(_to_json(asdict_all(result)))
              [] name = "workspace_share" ->
                    Return(PyStr("Permission '" \o str(A("permission")) \o "' set for "
                                 \o str(A("user")) \o " on " \o str(A("path"))))
              [] name = "workspace_download_url" ->
                    LET url == get(result, str(A("path")), None)
                    IN IF url.k = "raise" THEN url
                       ELSE Return(_to_json(PyDict(<< <<"url", url.v>> >>)))
              [] name = "apps_list" -> Return(_to_json(app_summary(result)))
              [] name = "app_schema" ->
                    Return(_to_json(IF truthy(result) THEN asdict(result) ELSE None))
              [] name = "job_status" ->
                    Return(_to_json(PyDict([i \in 1..Len(result.v) |->
                        <<result.v[i][1], asdict(result.v[i][2])>>])))
              [] name = "job_cancel" ->
                    Return(PyStr(IF truthy(result)
                                 THEN "Cancelled: " \o str(A("task_id"))
                                 ELSE "Failed to cancel: " \o str(A("task_id"))))
              [] name = "job_logs" -> job_logs_result(A("task_id"), result)

TextContent(text) == [type |-> "text", text |-> text]

\* Mutant: the ValueError of an unknown tool name is not caught.
call_tool_unknown_escapes(out) ==
    IF out.k = "return" THEN Return(<<[type |-> "text", text |-> out.v.v]>>)
    ELSE IF out.exc = "ValueError" THEN out
         ELSE Return(<<[type |-> "text", text |-> "Error: " \o out.msg]>>)

\* call_tool around handle_tool: every Exception becomes an "Error: ..." text.
call_tool(out) ==
    IF out.k = "return" THEN Return(<<TextContent(out.v.v)>>)
    ELSE Return(<<TextContent("Error: " \o out.msg)>>)

NoCall == [name |-> "", args |-> <<>>]
NoLast == [k |-> "none"]
NoParse == [k |-> "none"]

NoOutcome == [k |-> "none"]
NoHttp == [kind |-> "none", status |-> 0, is_json |-> FALSE, data |-> PyDict(<<>>)]

\* ------------------------------------------------------------------ inputs
Unset == [set |-> FALSE, text |-> <<>>]
Missing == [exists |-> FALSE, readable |-> FALSE, text |-> <<>>]

\* The environments the server process is started in: no token source at
\* all, a token in BVBRC_TOKEN, a token file ending in a newline.
ClientEnvs ==
    {[BVBRC_TOKEN |-> Unset, P3_AUTH_TOKEN |-> Unset, files |-> <<Missing, Missing, Missing>>],
     [BVBRC_TOKEN |-> [set |-> TRUE, text |-> <<"u", "n", "=", "a">>],
      P3_AUTH_TOKEN |-> Unset, files |-> <<Missing, Missing, Missing>>],
     [BVBRC_TOKEN |-> Unset, P3_AUTH_TOKEN |-> Unset,
      files |-> <<Missing, [exists |-> TRUE, readable |-> TRUE, text |-> <<"t", "\n">>], Missing>>]}

Path == PyStr("/u/home/x")
AppRecord == PyDict(<< <<"id", PyStr("GenomeAssembly")>>, <<"label", PyStr("Assembly")>> >>)
TaskRecord ==
    PyDict(<< <<"id", PyStr("t1")>>, <<"app", PyStr("GenomeAssembly")>>,
              <<"status", PyStr("completed")>>, <<"output_path", PyStr("/u/home/out")>> >>)
WireTuple == PyList(<<Path, PyStr("folder"), PyStr("u"), PyStr("2024-01-01"), PyStr("uuid")>>)

\* The "result" members the remote service answers with.
Results ==
    {None, PyList(<<>>), PyList(<<None>>), PyList(<<PyList(<<>>)>>), PyList(<<PyDict(<<>>)>>),
     PyList(<<PyInt(0)>>), PyList(<<PyInt(1)>>), PyList(<<PyBool(TRUE)>>),
     PyList(<<PyStr("1")>>), PyInt(1),
     PyList(<<AppRecord>>), PyList(<<PyList(<<AppRecord>>)>>),
     PyList(<<TaskRecord>>), PyList(<<PyList(<<TaskRecord>>)>>),
     PyList(<<PyDict(<< <<"t1", TaskRecord>> >>)>>),
     PyList(<<PyList(<<WireTuple>>)>>),
     PyList(<<PyDict(<< <<Path.v, PyList(<<WireTuple>>)>> >>)>>),
     PyList(<<PyDict(<< <<Path.v, PyStr("https://dl/x")>> >>)>>)}

RpcFault == PyDict(<< <<"code", PyInt(-32603)>>, <<"message", PyStr("boom")>> >>)

Body(pairs) == [kind |-> "response", status |-> 200, is_json |-> TRUE, data |-> PyDict(pairs)]

\* What self._http.post comes back with: a 2xx JSON body with or without
\* "error" and "result", a body that is not JSON, a status that is not 2xx,
\* or no response within the timeout.
HttpResponses ==
    {Body(<< <<"result", r>> >>) : r \in Results}
    \cup {Body(<< <<"error", e>>, <<"result", r>> >>) :
            e \in {None, PyDict(<<>>)}, r \in {PyList(<<PyInt(1)>>), PyList(<<>>)}}
    \cup {Body(<<>>), Body(<< <<"error", None>> >>)}
    \cup {Body(<< <<"error", e>>, <<"result", None>> >>) :
            e \in {RpcFault, PyDict(<< <<"message", PyStr("boom")>> >>), PyStr("boom")}}
    \cup {Body(<< <<"error", RpcFault>>, <<"result", PyList(<<PyInt(1)>>)>> >>)}
    \cup {[kind |-> "response", status |-> 204, is_json |-> FALSE, data |-> PyDict(<<>>)]}
    \cup {[kind |-> "response", status |-> st, is_json |-> TRUE,
           data |-> PyDict(<< <<"result", PyList(<<PyInt(1)>>)>> >>)] : st \in {302, 404, 500}}
    \cup {[kind |-> "response", status |-> 500, is_json |-> TRUE,
           data |-> PyDict(<< <<"error", RpcFault>> >>)]}
    \cup {[kind |-> "timeout", status |-> 0, is_json |-> FALSE, data |-> PyDict(<<>>)]}

ToolNames ==
    {"workspace_list", "workspace_get", "workspace_create_folder", "workspace_upload",
     "workspace_delete", "workspace_copy", "workspace_move", "workspace_share",
     "workspace_download_url", "apps_list", "app_schema", "job_submit", "job_status",
     "job_list", "job_cancel", "job_logs"}

\* The limits job_list is asked for.
Limits == {-1, 0, 25, 99, 100, 101, 250}

\* The arguments the host passes with each tool name, complete or not.
ToolArgs(name) ==
    LET D(pairs) == PyDict(pairs)
        T == PyBool(TRUE)
    IN CASE name = "workspace_list" ->
                {D(<<>>), D(<< <<"path", Path>> >>), D(<< <<"path", Path>>, <<"recursive", T>> >>)}
         [] name = "workspace_get" ->
                {D(<<>>), D(<< <<"path", Path>> >>), D(<< <<"path", Path>>, <<"metadata_only", T>> >>)}
         [] name = "workspace_create_folder" -> {D(<<>>), D(<< <<"path", Path>> >>)}
         [] name = "workspace_upload" ->
                {D(<< <<"path", Path>> >>),
                 D(<< <<"path", Path>>, <<"content", PyStr("ACGT")>> >>),
                 D(<< <<"path", Path>>, <<"type", PyStr("contigs")>>, <<"content", PyStr("ACGT")>> >>)}
         [] name = "workspace_delete" ->
                {D(<<>>), D(<< <<"path", Path>> >>), D(<< <<"path", Path>>, <<"force", T>> >>)}
         [] name \in {"workspace_copy", "workspace_move"} ->
                {D(<< <<"source", Path>> >>),
                 D(<< <<"source", Path>>, <<"destination", PyStr("/u/home/y")>> >>)}
         [] name = "workspace_share" ->
                {D(<< <<"path", Path>>, <<"user", PyStr("bob")>> >>),
                 D(<< <<"path", Path>>, <<"user", PyStr("bob")>>, <<"permission", PyStr("r")>> >>)}
         [] name = "workspace_download_url" -> {D(<<>>), D(<< <<"path", Path>> >>)}
         [] name = "apps_list" -> {D(<<>>)}
         [] name = "app_schema" -> {D(<<>>), D(<< <<"app_id", PyStr("GenomeAssembly")>> >>)}
         [] name = "job_submit" ->
                {D(<< <<"app_id", PyStr("GenomeAssembly")>> >>),
                 D(<< <<"app_id", PyStr("GenomeAssembly")>>, <<"params", D(<<>>)>>,
                      <<"output_path", PyStr("/u/home/out")>> >>)}
         [] name = "job_status" ->
                {D(<<>>), D(<< <<"task_ids", PyList(<<PyStr("t1"), PyStr("t2")>>)>> >>)}
         [] name = "job_list" ->
                {D(<<>>), D(<< <<"offset", PyInt(5)>> >>)}
                \cup {D(<< <<"limit", PyInt(n)>> >>) : n \in Limits}
         [] name = "job_cancel" -> {D(<<>>), D(<< <<"task_id", PyStr("t1")>> >>)}
         [] name = "job_logs" ->
                {D(<<>>), D(<< <<"task_id", PyStr("t1")>> >>), D(<< <<"task_id", PyStr("t2")>> >>)}
         [] OTHER -> {D(<<>>)}

\* --------------------------------------------------- specification: session
Init ==
    /\ environ \in ClientEnvs
    /\ token = init_token(<<>>, environ)
    /\ _request_id = 0
    /\ pc = "idle"
    /\ inflight = NoCall
    /\ last = NoLast
    /\ calls = 0
    /\ served = 0
    /\ unknown_seen = FALSE
    /\ ids = <<>>
    /\ tuple_data = <<>>
    /\ parsed = NoParse
    /\ callers = <<>>

\* call_tool returns its response to the host, or an exception leaves it.
Respond(response) ==
    /\ served' = IF response.k = "return" THEN served + 1 ELSE served
    /\ pc' = IF response.k = "return" THEN "idle" ELSE "crashed"

\* The host calls a tool: call_tool and handle_tool run up to the client's
\* self._http.post, or to the exception raised before any request is made.
CallTool(name, args) ==
    /\ pc = "idle"
    /\ calls < MaxCalls
    /\ calls' = calls + 1
    /\ unknown_seen' = (unknown_seen \/ name \notin ToolNames)
    /\ LET pre == handle_tool_call(name, args)
       IN IF pre.k = "raise"
          THEN /\ last' = [k |-> "done", name |-> name, args |-> args, sent |-> <<>>,
                           posts |-> 0, http |-> NoHttp, rpc |-> NoOutcome, ret |-> NoOutcome,
                           out |-> pre, response |-> call_tool(pre)]
               /\ Respond(call_tool(pre))
               /\ UNCHANGED <<_request_id, inflight, ids>>
          ELSE LET req == rpc_send(token, _request_id, pre.v.call.url,
                                   pre.v.call.method, pre.v.call.params)
               IN /\ _request_id' = req._request_id
                  /\ ids' = Append(ids, req.json.id)
                  /\ inflight' = [name |-> name, args |-> args, op |-> pre.v.op,
                                  call |-> pre.v.call, posts |-> 1,
                                  request |-> [url |-> req.url, json |-> req.json,
                                               headers |-> req.headers]]
                  /\ last' = NoLast
                  /\ pc' = "awaiting"
                  /\ UNCHANGED served
    /\ UNCHANGED <<environ, token, tuple_data, parsed, callers>>

\* Mutant: a call that failed is posted once more.
retry_after_failure(rpc, posts) == rpc.k = "raise" /\ posts < 2

\* Whether _rpc_call posts the request again after the outcome rpc of its
\* posts-th attempt: there is no loop around self._http.post, the first
\* outcome is final.
retry_after(rpc, posts) == FALSE

\* self._http.post returns (or times out): the rest of _rpc_call, of the
\* client operation, of handle_tool and of call_tool.
HttpResponse(http) ==
    /\ pc = "awaiting"
    /\ LET rpc == rpc_receive(http)
           ret == IF rpc.k = "raise" THEN rpc ELSE client_result(inflight.op, rpc.v)
           out == handle_tool_result(inflight.name, inflight.args, ret)
           req == rpc_send(token, _request_id, inflight.call.url, inflight.call.method,
                           inflight.call.params)
       IN IF retry_after(rpc, inflight.posts)
          THEN /\ _request_id' = req._request_id
               /\ ids' = Append(ids, req.json.id)
               /\ inflight' = [inflight EXCEPT !.posts = @ + 1,
                                               !.request = [url |-> req.url, json |-> req.json,
                                                            headers |-> req.headers]]
               /\ UNCHANGED <<pc, last, served>>
          ELSE /\ last' = [k |-> "done", name |-> inflight.name, args |-> inflight.args,
                           sent |-> <<inflight.request>>, posts |-> inflight.posts,
                           http |-> http, rpc |-> rpc,
                           ret |-> ret, out |-> out, response |-> call_tool(out)]
               /\ Respond(call_tool(out))
               /\ inflight' = NoCall
               /\ UNCHANGED <<_request_id, ids>>
    /\ UNCHANGED <<environ, token, calls, unknown_seen, tuple_data, parsed, callers>>

Next ==
    \/ \E name \in ToolNames \cup {"workspace_rename"} : \E args \in ToolArgs(name) : CallTool(name, args)
    \/ \E http \in HttpResponses : HttpResponse(http)

Spec == Init /\ [][Next]_vars

\* --------------------------------------------- specification: token loading
InitToken ==
    /\ environ \in Environs
    /\ token = <<>>
    /\ _request_id = 0
    /\ pc = "start"
    /\ inflight = NoCall
    /\ last = NoLast
    /\ calls = 0
    /\ served = 0
    /\ unknown_seen = FALSE
    /\ ids = <<>>
    /\ tuple_data = <<>>
    /\ parsed = NoParse
    /\ callers = <<>>

Construct ==
    /\ pc = "start"
    /\ token' = init_token(<<>>, environ)
    /\ _request_id' = 0
    /\ pc' = "idle"
    /\ UNCHANGED <<environ, inflight, last, calls, served, unknown_seen, ids, tuple_data, parsed,
                   callers>>

NextToken == Construct

SpecToken == InitToken /\ [][NextToken]_vars

\* ----------------------------------------- specification: tuple decoding
InitParse ==
    /\ environ \in {[BVBRC_TOKEN |-> [set |-> FALSE, text |-> <<>>],
                     P3_AUTH_TOKEN |-> [set |-> FALSE, text |-> <<>>],
                     files |-> [i \in 1..3 |-> [exists |-> FALSE, readable |-> FALSE, text |-> <<>>]]]}
    /\ token = <<>>
    /\ _request_id = 0
    /\ pc = "wire"
    /\ inflight = NoCall
    /\ last = NoLast
    /\ calls = 0
    /\ served = 0
    /\ unknown_seen = FALSE
    /\ ids = <<>>
    /\ tuple_data \in {PyList(w) : w \in UNION {WireTuples(n) : n \in 0..MaxTupleLen}}
    /\ parsed = NoParse
    /\ callers = <<>>

ParseWorkspaceObject ==
    /\ pc = "wire"
    /\ parsed' = _parse_workspace_object(tuple_data)
    /\ pc' = "parsed"
    /\ UNCHANGED <<environ, token, _request_id, inflight, last, calls, served, unknown_seen, ids,
                   tuple_data, callers>>

NextParse == ParseWorkspaceObject

SpecParse == InitParse /\ [][NextParse]_vars

\* ------------------------------- specification: concurrent callers
\* Several threads call RPC operations of the same client. _rpc_call takes no
\* lock: "self._request_id += 1" reads the attribute, adds one and writes it
\* back, and str(self._request_id) reads it again for the envelope, so the
\* threads' steps interleave.
InitConcurrent ==
    /\ environ \in ClientEnvs
    /\ token = init_token(<<>>, environ)
    /\ _request_id = 0
    /\ pc = "threads"
    /\ inflight = NoCall
    /\ last = NoLast
    /\ calls = 0
    /\ served = 0
    /\ unknown_seen = FALSE
    /\ ids = <<>>
    /\ tuple_data = <<>>
    /\ parsed = NoParse
    /\ callers = [c \in 1..NumCallers |-> [pc |-> "ready", tmp |-> 0, made |-> 0]]

\* self._request_id += 1: the read of the attribute.
LoadCounter(c) ==
    /\ callers[c].pc = "ready"
    /\ callers[c].made < CallsPerCaller
    /\ callers' = [callers EXCEPT ![c].pc = "loaded", ![c].tmp = _request_id]
    /\ calls' = calls + 1
    /\ UNCHANGED <<environ, token, _request_id, pc, inflight, last, served, unknown_seen,
                   ids, tuple_data, parsed>>

\* self._request_id += 1: the write of the sum.
StoreCounter(c) ==
    /\ callers[c].pc = "loaded"
    /\ _request_id' = next_request_id(callers[c].tmp)
    /\ callers' = [callers EXCEPT ![c].pc = "stored"]
    /\ UNCHANGED <<environ, token, pc, inflight, last, calls, served, unknown_seen, ids,
                   tuple_data, parsed>>

\* The envelope is built with str(self._request_id) as it is now, and posted.
PostRequest(c) ==
    /\ callers[c].pc = "stored"
    /\ ids' = Append(ids, str(PyInt(_request_id)))
    /\ callers' = [callers EXCEPT ![c].pc = "ready", ![c].made = @ + 1]
    /\ UNCHANGED <<environ, token, _request_id, pc, inflight, last, calls, served,
                   unknown_seen, tuple_data, parsed>>

NextConcurrent ==
    \E c \in 1..NumCallers : LoadCounter(c) \/ StoreCounter(c) \/ PostRequest(c)

SpecConcurrent == InitConcurrent /\ [][NextConcurrent]_vars

\* ------------------------------------------------------------------ claims
\* What C4 says the token is: the first source, in the order BVBRC_TOKEN,
\* P3_AUTH_TOKEN, .bvbrc_token, .patric_token, .p3_token, that is present and
\* not empty once trimmed, trimmed; the empty string when there is none.
TokenSources(e) ==
    <<e.BVBRC_TOKEN, e.P3_AUTH_TOKEN>>
    \o [i \in 1..3 |-> [set |-> e.files[i].exists /\ e.files[i].readable,
                        text |-> e.files[i].text]]

NonEmptySource(src) == src.set /\ strip(src.text) # <<>>

FirstNonEmptySource(e) ==
    LET srcs == TokenSources(e)
    IN IF \E i \in 1..Len(srcs) : NonEmptySource(srcs[i])
       THEN strip(srcs[CHOOSE i \in 1..Len(srcs) :
                         /\ NonEmptySource(srcs[i])
                         /\ \A j \in 1..(i - 1) : ~NonEmptySource(srcs[j])].text)
       ELSE <<>>

\* C4: token resolution picks the first non-empty source in priority order,
\* trimmed; an empty or whitespace-only source is skipped in favour of a later
\* non-empty one, and the token is empty only when every source is absent or
\* empty.
C4_FirstNonEmptySourceWins ==
    pc = "idle" => token = FirstNonEmptySource(environ)

\* C6: for every wire tuple of length 0 to 11 the decoder raises nothing (in
\* particular no IndexError) and fills each field from its fixed position:
\* 0-4 path, type, owner, creation time, id as strings; 6 the size, 0 when
\* falsy; 7 and 8 the metadata mappings; 9 the shock reference; 11 the data;
\* every field whose position is at or beyond the length takes its default
\* ("" / 0 / {} / None). Positions 5 and 10 are never read.
At(i) == tuple_data.v[i + 1]
Has(i) == Len(tuple_data.v) > i

C6_ShortTuplesDecode ==
    (pc = "parsed" /\ Len(tuple_data.v) <= 11) =>
        /\ parsed.k = "return"
        /\ parsed.v.path = (IF Has(0) THEN PyStr(str(At(0))) ELSE PyStr(""))
        /\ parsed.v.type = (IF Has(1) THEN PyStr(str(At(1))) ELSE PyStr(""))
        /\ parsed.v.owner = (IF Has(2) THEN PyStr(str(At(2))) ELSE PyStr(""))
        /\ parsed.v.creation_time = (IF Has(3) THEN PyStr(str(At(3))) ELSE PyStr(""))
        /\ parsed.v.id = (IF Has(4) THEN PyStr(str(At(4))) ELSE PyStr(""))
        /\ parsed.v.size.t = "int"
        /\ parsed.v.size.v = (IF Has(6) /\ truthy(At(6)) THEN int(At(6)).v ELSE 0)
        /\ parsed.v.user_metadata = (IF Has(7) THEN At(7) ELSE PyDict(<<>>))
        /\ parsed.v.auto_metadata = (IF Has(8) THEN At(8) ELSE PyDict(<<>>))
        /\ parsed.v.shock_ref = (IF Has(9) /\ truthy(At(9)) THEN PyStr(str(At(9))) ELSE None)
        /\ parsed.v.data = None

\* C6 witness: a 10-element tuple with a size and a shock reference has been
\* decoded, and its data field defaulted.
C6_Witness ==
    /\ pc = "parsed"
    /\ Len(tuple_data.v) = 10
    /\ parsed.k = "return"
    /\ parsed.v.size = PyInt(12)
    /\ parsed.v.shock_ref = PyStr("shock")
    /\ parsed.v.data = None

\* The request a tool call has posted, while it waits for the response.
Posted == IF pc = "awaiting" THEN {inflight.request} ELSE {}

\* A tool call has finished after posting a request and getting an HTTP response.
Answered == last.k = "done" /\ last.sent # <<>> /\ last.http.kind = "response"

\* C1: the request identifier of the k-th envelope a client posts is k: the
\* first is "1", each later one is greater than every earlier one, and none
\* is used twice, whether the calls succeed or fail.
C1_RequestIdIsCallNumber ==
    /\ \A k \in 1..Len(ids) : ids[k] = Digit[k + 1]
    /\ \A r \in Posted : r.json.id = Digit[Len(ids) + 1]
    /\ _request_id = Len(ids)

\* C1 witness: a call that failed with an RPC error was the second envelope
\* of the session and carried id "2".
C1_Witness ==
    /\ Answered
    /\ last.rpc.k = "raise"
    /\ last.rpc.exc = "Exception"
    /\ last.sent[1].json.id = "2"
    /\ ids = <<"1", "2">>

\* C2: the response decides the outcome of an RPC call in this order: a
\* status that is not 2xx raises a transport error carrying the status,
\* whatever the body; otherwise a JSON body with a non-empty "error" object
\* raises "RPC Error <code>: <message>"; otherwise (no "error", or an empty or
\* null one) the call returns the "result" member as it is.
ErrorOf(data) == DictGet(data, "error", None)

C2_OutcomeOrder ==
    Answered =>
        LET h == last.http
        IN IF h.status < 200 \/ h.status > 299
           THEN /\ last.rpc.k = "raise"
                /\ last.rpc.exc = "HTTPStatusError"
                /\ last.rpc.status = h.status
           ELSE h.is_json =>
                IF DictHas(h.data, "error") /\ ErrorOf(h.data).t = "dict"
                   /\ Len(ErrorOf(h.data).v) > 0
                THEN /\ last.rpc.k = "raise"
                     /\ last.rpc.exc = "Exception"
                     /\ last.rpc.msg = "RPC Error "
                            \o str(DictGet(ErrorOf(h.data), "code", None)) \o ": "
                            \o str(DictGet(ErrorOf(h.data), "message", None))
                ELSE (~DictHas(h.data, "error") \/ ErrorOf(h.data) \in {None, PyDict(<<>>)}) =>
                        /\ last.rpc.k = "return"
                        /\ last.rpc.v = DictGet(h.data, "result", None)

\* C2 witness: a 200 response whose body has an empty "error" object and the
\* result [1] made the call return [1].
C2_Witness ==
    /\ Answered
    /\ last.http.status = 200
    /\ DictHas(last.http.data, "error")
    /\ ErrorOf(last.http.data) = PyDict(<<>>)
    /\ last.rpc = Return(PyList(<<PyInt(1)>>))

\* C3: a request carries an Authorization header if and only if the client
\* holds a non-empty token, and the header is then the token itself, with no
\* prefix; with no token source at all, is_authenticated is false and no
\* request carries the header.
NoTokenSource(e) ==
    /\ ~e.BVBRC_TOKEN.set
    /\ ~e.P3_AUTH_TOKEN.set
    /\ \A i \in 1..3 : ~e.files[i].exists

C3_AuthorizationIffToken ==
    /\ \A r \in Posted :
        /\ ("Authorization" \in DOMAIN r.headers) <=> (token # <<>>)
        /\ ("Authorization" \in DOMAIN r.headers) => r.headers.Authorization = token
    /\ NoTokenSource(environ) =>
        /\ ~is_authenticated(token)
        /\ \A r \in Posted : "Authorization" \notin DOMAIN r.headers

\* C3 witness: the second request of a client whose token came from a token
\* file carries the trimmed token as its Authorization header.
C3_Witness ==
    /\ pc = "awaiting"
    /\ Len(ids) = 2
    /\ environ.files[2].exists
    /\ "Authorization" \in DOMAIN inflight.request.headers
    /\ inflight.request.headers.Authorization = <<"t">>

\* C5: kill_task returns true if and only if the unwrapped result is the
\* sentinel 1; for a null result, an empty list, or a list whose first
\* element is 0, null or anything else, it returns false and does not raise.
C5_KillTaskOnlyOnOne ==
    (Answered /\ last.name = "job_cancel" /\ last.rpc.k = "return"
     /\ last.rpc.v.t \in {"null", "list"}) =>
        /\ last.ret.k = "return"
        /\ last.ret.v = PyBool(last.rpc.v.t = "list" /\ Len(last.rpc.v.v) > 0
                               /\ last.rpc.v.v[1] = PyInt(1))

\* C7: for enumerate_apps, enumerate_tasks, query_tasks, workspace_ls,
\* workspace_get, workspace_copy and workspace_move, a successful response
\* whose result is null, an empty list, or a list whose first element is null
\* or empty yields the empty list or the empty mapping and raises nothing.
CollectionOps ==
    {"enumerate_apps", "enumerate_tasks", "query_tasks", "workspace_ls",
     "workspace_get", "workspace_copy", "workspace_move"}

OpOf(name) == handle_tool_call(name, last.args).v.op

EmptyCollection(op) ==
    IF op \in {"query_tasks", "workspace_ls"} THEN PyDict(<<>>) ELSE PyList(<<>>)

C7_EmptyResultsYieldEmptyCollections ==
    (Answered /\ last.rpc.k = "return" /\ OpOf(last.name) \in CollectionOps
     /\ last.rpc.v \in {None, PyList(<<>>), PyList(<<None>>),
                        PyList(<<EmptyCollection(OpOf(last.name))>>)}) =>
        /\ last.ret.k = "return"
        /\ last.ret.v = EmptyCollection(OpOf(last.name))

\* C8: call_tool lets no failure of a call escape: every call returns one
\* text content; when the handler or the client raises, the text is
\* "Error: <message>"; a name outside the catalog gets such a response, and
\* the session goes on serving calls.
C8_EveryCallGetsATextResponse ==
    /\ pc # "crashed"
    /\ pc = "idle" => served = calls
    /\ last.k = "done" =>
        /\ last.response.k = "return"
        /\ Len(last.response.v) = 1
        /\ last.response.v[1].type = "text"
        /\ last.out.k = "raise" => last.response.v[1].text = "Error: " \o last.out.msg
        /\ last.out.k = "return" => last.response.v[1].text = last.out.v.v
        /\ last.name \notin ToolNames =>
                last.response.v[1].text = "Error: Unknown tool: " \o last.name

\* C8 witness: after a call of an unknown tool was answered with an error
\* text, a later call of a catalog tool was served with its result.
C8_Witness ==
    /\ unknown_seen
    /\ pc = "idle"
    /\ served = 2
    /\ last.k = "done"
    /\ last.name = "apps_list"
    /\ last.out.k = "return"
    /\ last.response.v[1].text = "[]"

\* C9: job_logs never posts AppService.query_app_log; it posts exactly one
\* AppService.query_tasks call for the given id; when the id is not a key of
\* the mapping query_tasks returns, it returns "Task <id> not found" without
\* raising, and when it is, the hint with the task's status and output path.
JobLogsHint(task_id, task) ==
    "{\n  \"note\": \"Direct log retrieval is not available via API\",\n"
    \o "  \"task_id\": \"" \o task_id \o "\",\n"
    \o "  \"status\": \"" \o task.status.v \o "\",\n"
    \o "  \"output_path\": \"" \o task.output_path.v \o "\",\n"
    \o "  \"suggestion\": \"Use workspace_list on '" \o task.output_path.v
    \o "' to find log files (.log, .err, .out)\"\n}"

C9_JobLogsQueriesTasksOnly ==
    /\ \A r \in Posted :
        /\ r.json.method # "AppService.query_app_log"
        /\ inflight.name = "job_logs" =>
            /\ r.url = DEFAULT_APP_SERVICE_URL
            /\ r.json.method = "AppService.query_tasks"
            /\ r.json.params = PyList(<<PyList(<<DictGet(inflight.args, "task_id", None)>>)>>)
    /\ (last.k = "done" /\ last.name = "job_logs" /\ DictHas(last.args, "task_id")) =>
        LET task_id == DictGet(last.args, "task_id", None).v
        IN /\ Len(last.sent) = 1
           /\ last.sent[1].json.method = "AppService.query_tasks"
           /\ last.ret.k = "return" =>
                IF DictHas(last.ret.v, task_id)
                THEN last.out = Return(PyStr(JobLogsHint(task_id, DictGet(last.ret.v, task_id, None))))
                ELSE last.out = Return(PyStr("Task " \o task_id \o " not found"))

\* C9 witness: job_logs for t2, answered with a mapping that holds only t1,
\* returned "Task t2 not found".
C9_Witness ==
    /\ last.k = "done"
    /\ last.name = "job_logs"
    /\ last.ret.k = "return"
    /\ DictHas(last.ret.v, "t1")
    /\ last.response = Return(<<TextContent("Task t2 not found")>>)

\* C10: job_list passes min(requested limit, 100) to
\* AppService.enumerate_tasks: a limit above 100 becomes 100, a limit of 100
\* or less, 0 and negative ones included, passes unchanged, the default is 25,
\* and no error is raised for any limit.
RequestedLimit(args) == IF DictHas(args, "limit") THEN DictGet(args, "limit", None).v ELSE 25

C10_JobListClampsLimit ==
    /\ (pc = "awaiting" /\ inflight.name = "job_list") =>
        /\ inflight.request.json.method = "AppService.enumerate_tasks"
        /\ inflight.request.json.params.v[2] =
                PyInt(IF RequestedLimit(inflight.args) > 100 THEN 100
                      ELSE RequestedLimit(inflight.args))
    /\ (last.k = "done" /\ last.name = "job_list") => Len(last.sent) = 1

\* C10 witness: job_list asked for 250 tasks posted a limit of 100.
C10_Witness ==
    /\ pc = "awaiting"
    /\ inflight.name = "job_list"
    /\ DictGet(inflight.args, "limit", None) = PyInt(250)
    /\ inflight.request.json.params = PyList(<<PyInt(0), PyInt(100)>>)

\* C11: the parameter mapping of a Workspace.create request has the key
\* "overwrite" if and only if workspace_create was called with overwrite
\* true, and its value is then true; "overwrite": false is never sent. So
\* workspace_create_folder never sends the key and workspace_upload always
\* sends it as true.
CreateParams(r) == r.json.params.v[1]

C11_OverwriteOnlyWhenTrue ==
    \A r \in Posted :
        r.json.method = "Workspace.create" =>
            /\ inflight.name \in {"workspace_create_folder", "workspace_upload"}
            /\ Len(r.json.params.v) = 1
            /\ DictHas(CreateParams(r), "overwrite") <=> (inflight.name = "workspace_upload")
            /\ DictHas(CreateParams(r), "overwrite") =>
                    DictGet(CreateParams(r), "overwrite", None) = PyBool(TRUE)
            /\ inflight.name = "workspace_create_folder" =>
                    CreateParams(r) = PyDict(<< <<"objects",
                        PyList(<<PyList(<<DictGet(inflight.args, "path", None),
                                          PyStr("folder"), PyDict(<<>>), None>>)>>)>> >>)

\* C11 witness: workspace_upload has posted a Workspace.create request whose
\* mapping holds "overwrite": true.
C11_Witness ==
    /\ pc = "awaiting"
    /\ inflight.name = "workspace_upload"
    /\ inflight.request.json.method = "Workspace.create"
    /\ inflight.request.json.params.v[1].v[2] = <<"overwrite", PyBool(TRUE)>>

\* The keys each tool's schema requires (TOOLS, "required").
Required(name) ==
    CASE name \in {"workspace_list", "workspace_get", "workspace_create_folder",
                   "workspace_delete", "workspace_download_url"} -> <<"path">>
      [] name = "workspace_upload" -> <<"path", "content">>
      [] name \in {"workspace_copy", "workspace_move"} -> <<"source", "destination">>
      [] name = "workspace_share" -> <<"path", "user", "permission">>
      [] name = "app_schema" -> <<"app_id">>
      [] name = "job_submit" -> <<"app_id", "params", "output_path">>
      [] name = "job_status" -> <<"task_ids">>
      [] name \in {"job_cancel", "job_logs"} -> <<"task_id">>
      [] OTHER -> <<>>

WorkspaceTools ==
    {"workspace_list", "workspace_get", "workspace_create_folder", "workspace_upload",
     "workspace_delete", "workspace_copy", "workspace_move", "workspace_share",
     "workspace_download_url"}

EndpointOf(name) ==
    IF name \in WorkspaceTools THEN DEFAULT_WORKSPACE_URL ELSE DEFAULT_APP_SERVICE_URL

AllCallsMade ==
    \A c \in DOMAIN callers : callers[c].pc = "ready" /\ callers[c].made = CallsPerCaller

C12_ConcurrentIdsDistinct ==
    /\ \A i, j \in 1..Len(ids) : i # j => ids[i] # ids[j]
    /\ (pc = "threads" /\ AllCallsMade) => _request_id = calls

====
